---- MODULE Spec2Model ----
(***************************************************************************)
(* Verification model of the cloud viewer's core: the arcball camera       *)
(* (object/camera.rs), the scene commands (facade/command/                 *)
(* scene_command.rs), the ray/box intersection (object/objects/            *)
(* bounding_box.rs) and the per-pixel cloud march (visitor/                *)
(* draw_visitor.rs).                                                       *)
(*                                                                         *)
(* f32 values are modelled as extended fixed-point numbers: a record       *)
(* [k, v] that is either finite (k = "fin", v an integer count of a unit   *)
(* stated where the quantity is introduced), an infinity (k = "inf",       *)
(* v = 1 or -1) or NaN (k = "nan").  The operators F* below follow the     *)
(* IEEE-754 rules for the special values and Rust's documented behaviour   *)
(* of f32::max, f32::min and f32::clamp on NaN.  Rounding of finite        *)
(* results is truncation towards zero of the fixed-point value, which is   *)
(* sign-symmetric like f32 rounding; the sign of zero is not kept.         *)
(***************************************************************************)
EXTENDS Integers, Sequences, FiniteSets, TLC

VARIABLES cam, trip, sc, ray, march, par

vars == <<cam, trip, sc, ray, march, par>>

----------------------------------------------------------------------------
(* Extended fixed-point arithmetic (f32)                                    *)

F(n) == [k |-> "fin", v |-> n]
NaN == [k |-> "nan", v |-> 0]
PInf == [k |-> "inf", v |-> 1]
NInf == [k |-> "inf", v |-> -1]

IsFin(a) == a.k = "fin"
IsNaN(a) == a.k = "nan"
IsInf(a) == a.k = "inf"

Abs(n) == IF n < 0 THEN -n ELSE n
Sgn(n) == IF n > 0 THEN 1 ELSE IF n < 0 THEN -1 ELSE 0

\* n / d rounded towards zero (d > 0)
Trunc(n, d) == IF n >= 0 THEN n \div d ELSE -((-n) \div d)

Inf(s) == [k |-> "inf", v |-> s]

FNeg(a) == IF IsNaN(a) THEN NaN ELSE [k |-> a.k, v |-> -a.v]

FAdd(a, b) ==
    IF IsNaN(a) \/ IsNaN(b) THEN NaN
    ELSE IF IsInf(a) /\ IsInf(b) THEN (IF a.v = b.v THEN a ELSE NaN)
    ELSE IF IsInf(a) THEN a
    ELSE IF IsInf(b) THEN b
    ELSE F(a.v + b.v)

FSub(a, b) == FAdd(a, FNeg(b))

\* a * b where the finite product of the two integer counts is divided by
\* den to come back to the unit of the result
FMul(a, b, den) ==
    IF IsNaN(a) \/ IsNaN(b) THEN NaN
    ELSE IF IsInf(a) \/ IsInf(b)
         THEN (IF Sgn(a.v) * Sgn(b.v) = 0 THEN NaN ELSE Inf(Sgn(a.v) * Sgn(b.v)))
    ELSE F(Trunc(a.v * b.v, den))

\* a / b, the finite quotient multiplied by num to stay in the unit of a
FDiv(a, b, num) ==
    IF IsNaN(a) \/ IsNaN(b) THEN NaN
    ELSE IF IsInf(a) /\ IsInf(b) THEN NaN
    ELSE IF IsInf(a) THEN Inf(a.v * (IF b.v < 0 THEN -1 ELSE 1))
    ELSE IF IsInf(b) THEN F(0)
    ELSE IF b.v = 0 THEN (IF a.v = 0 THEN NaN ELSE Inf(Sgn(a.v)))
    ELSE F(Sgn(a.v) * Sgn(b.v) * ((Abs(a.v) * num) \div Abs(b.v)))

\* a < b and a <= b: false as soon as one side is NaN
FLt(a, b) ==
    /\ ~IsNaN(a)
    /\ ~IsNaN(b)
    /\ IF IsInf(a) /\ IsInf(b) THEN a.v < b.v
       ELSE IF IsInf(a) THEN a.v < 0
       ELSE IF IsInf(b) THEN b.v > 0
       ELSE a.v < b.v

FLe(a, b) == ~IsNaN(a) /\ ~IsNaN(b) /\ (a = b \/ FLt(a, b))

\* f32::max and f32::min: a NaN operand is ignored
FMax(a, b) == IF IsNaN(a) THEN b ELSE IF IsNaN(b) THEN a ELSE IF FLt(a, b) THEN b ELSE a
FMin(a, b) == IF IsNaN(a) THEN b ELSE IF IsNaN(b) THEN a ELSE IF FLt(b, a) THEN b ELSE a

\* f32::clamp: two comparisons, so a NaN self is returned as it is
FClamp(x, lo, hi) == IF FLt(x, lo) THEN lo ELSE IF FLt(hi, x) THEN hi ELSE x

----------------------------------------------------------------------------
(* Arcball camera (object/camera.rs).  Angles count 1/1000 rad, distances   *)
(* and pivot coordinates count 1/100 of a world unit, mouse deltas count    *)
(* whole pointer units.                                                     *)

FRAC_PI_2 == 1571

MaxYaw == 1000
MaxDistance == 2000
MaxPivot == 1

\* impl Default for ArcBall
DefaultArcBall ==
    [pivot |-> <<F(0), F(50), F(0)>>, pitch |-> F(0), yaw |-> F(0), distance |-> F(1000)]

\* impl Default for Perspective: fov in 1/1000 rad (45 degrees), clip planes
\* in 1/100 of a world unit
DefaultPerspective == [fov |-> F(785), clip_near |-> F(10), clip_far |-> F(10000)]

\* impl Default for ArcBallController: pan_sensitivity counts 1/10000,
\* swivel_sensitivity 1/1000, zoom_sensitivity 1/100, closest_zoom 1/100
DefaultArcBallController ==
    [pan_sensitivity |-> F(15), swivel_sensitivity |-> F(5),
     zoom_sensitivity |-> F(4), closest_zoom |-> F(1)]

\* #[derive(Default)] struct Camera
DefaultCamera ==
    [proj |-> DefaultPerspective, view |-> DefaultArcBall, control |-> DefaultArcBallController]

\* mouse deltas handed to pivot, pan and zoom
PivotDeltas == {F(-400), F(0), F(200), NaN, PInf}
ZoomDeltas == {F(-1000), F(0), F(5625), NaN, PInf}
PanDeltas == {F(0), F(100), NaN}

MutPivotNoClamp(self, arcball, delta_x, delta_y) ==
    [arcball EXCEPT
        !.yaw = FAdd(arcball.yaw, FMul(delta_x, self.swivel_sensitivity, 1)),
        !.pitch = FAdd(arcball.pitch, FMul(delta_y, self.swivel_sensitivity, 1))]

MutPivotClampYaw(self, arcball, delta_x, delta_y) ==
    [arcball EXCEPT
        !.yaw = FClamp(FAdd(arcball.yaw, FMul(delta_x, self.swivel_sensitivity, 1)),
                       F(-FRAC_PI_2), F(FRAC_PI_2)),
        !.pitch = FAdd(arcball.pitch, FMul(delta_y, self.swivel_sensitivity, 1))]

\* ArcBallController::pivot
Pivot(self, arcball, delta_x, delta_y) ==
    LET yaw1 == FAdd(arcball.yaw, FMul(delta_x, self.swivel_sensitivity, 1))
        pitch1 == FAdd(arcball.pitch, FMul(delta_y, self.swivel_sensitivity, 1))
    IN  [arcball EXCEPT
            !.yaw = yaw1,
            !.pitch = FClamp(pitch1, F(-FRAC_PI_2), F(FRAC_PI_2))]

MutZoomMin(self, arcball, delta) ==
    LET zs2 == FMul(self.zoom_sensitivity, self.zoom_sensitivity, 1)
        d1 == FAdd(arcball.distance,
                   FMul(FMul(delta, zs2, 1), arcball.distance, 10000))
    IN  [arcball EXCEPT !.distance = FMin(d1, self.closest_zoom)]

\* ArcBallController::zoom; the square of zoom_sensitivity counts 1/10000
Zoom(self, arcball, delta) ==
    LET zs2 == FMul(self.zoom_sensitivity, self.zoom_sensitivity, 1)
        d1 == FAdd(arcball.distance,
                   FMul(FMul(delta, zs2, 1), arcball.distance, 10000))
    IN  [arcball EXCEPT !.distance = FMax(d1, self.closest_zoom)]

\* The screen-space delta of ArcBallController::pan, x and y components
\* (z and w are 0)
PanScreenDelta(self, arcball, delta_x, delta_y) ==
    <<FMul(FMul(FNeg(delta_x), arcball.distance, 1), self.pan_sensitivity, 10000),
      FMul(FMul(delta_y, arcball.distance, 1), self.pan_sensitivity, 10000)>>

\* (inv * delta).xyz() of ArcBallController::pan.  inv is the inverse of the
\* look-at matrix, whose entries (sines and cosines of yaw and pitch) are not
\* computed here: a zero delta gives the zero vector, or NaN when the matrix
\* is degenerate (view direction along the up vector), a delta that is not
\* finite gives NaN, and any other delta gives some vector, drawn from a
\* sample of short vectors in every axis direction.
PanWorldDeltas(sd) ==
    IF IsFin(sd[1]) /\ IsFin(sd[2])
    THEN IF sd[1].v = 0 /\ sd[2].v = 0
         THEN {<<F(0), F(0), F(0)>>, <<NaN, NaN, NaN>>}
         ELSE {<<F(x), F(y), F(z)>> : x \in {-1, 0, 1}, y \in {-1, 0, 1}, z \in {0}}
              \cup {<<F(0), F(0), F(z)>> : z \in {-1, 1}}
    ELSE {<<NaN, NaN, NaN>>}

MutPanMovesEye(arcball, wd) ==
    [arcball EXCEPT !.pivot = <<FAdd(arcball.pivot[1], wd[1]),
                                FAdd(arcball.pivot[2], wd[2]),
                                FAdd(arcball.pivot[3], wd[3])>>,
                    !.distance = FAdd(arcball.distance, wd[1])]

\* arcball.pivot += delta of ArcBallController::pan
Pan(arcball, wd) ==
    [arcball EXCEPT !.pivot = <<FAdd(arcball.pivot[1], wd[1]),
                                FAdd(arcball.pivot[2], wd[2]),
                                FAdd(arcball.pivot[3], wd[3])>>]

\* f32::sin and f32::cos of an angle in 1/1000 rad, result in 1/1000: the
\* Taylor polynomials of degree 7 and 8, each power rounded onto the grid
FSin(x) ==
    IF ~IsFin(x) THEN NaN
    ELSE LET x2 == Trunc(x.v * x.v, 1000)
             x3 == Trunc(x.v * x2, 1000)
             x5 == Trunc(x3 * x2, 1000)
             x7 == Trunc(x5 * x2, 1000)
         IN  F(x.v - Trunc(x3, 6) + Trunc(x5, 120) - Trunc(x7, 5040))

FCos(x) ==
    IF ~IsFin(x) THEN NaN
    ELSE LET x2 == Trunc(x.v * x.v, 1000)
             x4 == Trunc(x2 * x2, 1000)
             x6 == Trunc(x4 * x2, 1000)
             x8 == Trunc(x6 * x2, 1000)
         IN  F(1000 - Trunc(x2, 2) + Trunc(x4, 24) - Trunc(x6, 720) + Trunc(x8, 40320))

\* ArcBall::eye, which Camera::get_position returns
Eye(arcball) ==
    <<FMul(FMul(FCos(arcball.yaw), FCos(arcball.pitch), 1000), arcball.distance, 1000),
      FMul(FSin(arcball.pitch), arcball.distance, 1000),
      FMul(FMul(FSin(arcball.yaw), FCos(arcball.pitch), 1000), arcball.distance, 1000)>>

PivotOffset(arcball, i) == Abs(arcball.pivot[i].v - DefaultArcBall.pivot[i].v)

\* the finite values the model lets the camera take
InCamBounds(arcball) ==
    /\ IsFin(arcball.yaw) => Abs(arcball.yaw.v) <= MaxYaw
    /\ IsFin(arcball.distance) => arcball.distance.v <= MaxDistance
    /\ (\A i \in 1..3 : IsFin(arcball.pivot[i])) =>
          PivotOffset(arcball, 1) + PivotOffset(arcball, 2) + PivotOffset(arcball, 3)
              <= MaxPivot

----------------------------------------------------------------------------
(* Bounding box (object/objects/bounding_box.rs).  Coordinates and ray       *)
(* parameters count whole world units.                                       *)

MaxCoord == 2

\* Vec3::min and Vec3::max, per component.  With a NaN component the result
\* depends on the glam build: f32::min / f32::max ("minnum", NaN ignored) or
\* a comparison "if a < b { a } else { b }" ("compare", which returns the
\* right-hand side when either side is NaN)
CompMin(glam, a, b) == IF glam = "minnum" THEN FMin(a, b) ELSE IF FLt(a, b) THEN a ELSE b
CompMax(glam, a, b) == IF glam = "minnum" THEN FMax(a, b) ELSE IF FLt(b, a) THEN a ELSE b

VecMin(glam, a, b) == [i \in 1..3 |-> CompMin(glam, a[i], b[i])]
VecMax(glam, a, b) == [i \in 1..3 |-> CompMax(glam, a[i], b[i])]
VecSub(a, b) == [i \in 1..3 |-> FSub(a[i], b[i])]
VecDiv(a, b) == [i \in 1..3 |-> FDiv(a[i], b[i], 1)]

MutFromTwoPosUnordered(a, b) == [min |-> a, max |-> b]

\* BoundingBox::from_two_pos (f32::min and f32::max on the coordinates)
FromTwoPos(a, b) ==
    [min |-> [i \in 1..3 |-> FMin(a[i], b[i])],
     max |-> [i \in 1..3 |-> FMax(a[i], b[i])]]

MutContainsExclusive(bb, position) ==
    \A i \in 1..3 : FLt(bb.min[i], position[i]) /\ FLt(position[i], bb.max[i])

\* BoundingBox::contains: RangeInclusive::contains on each axis
Contains(bb, position) ==
    \A i \in 1..3 : FLe(bb.min[i], position[i]) /\ FLe(position[i], bb.max[i])

MutDstNoClamp(glam, bb, ray_origin, ray_dir) ==
    LET t0 == VecDiv(VecSub(bb.min, ray_origin), ray_dir)
        t1 == VecDiv(VecSub(bb.max, ray_origin), ray_dir)
        tmin == VecMin(glam, t0, t1)
        tmax == VecMax(glam, t0, t1)
        dst_a == FMax(FMax(tmin[1], tmin[2]), tmin[3])
        dst_b == FMin(FMin(tmax[1], tmax[2]), tmax[3])
        dst_to_box == dst_a
        dst_inside_box == FMax(F(0), FSub(dst_b, dst_to_box))
    IN  [dst_to_box |-> dst_to_box, dst_inside_box |-> dst_inside_box]

MutDstNoSubtract(glam, bb, ray_origin, ray_dir) ==
    LET t0 == VecDiv(VecSub(bb.min, ray_origin), ray_dir)
        t1 == VecDiv(VecSub(bb.max, ray_origin), ray_dir)
        tmin == VecMin(glam, t0, t1)
        tmax == VecMax(glam, t0, t1)
        dst_a == FMax(FMax(tmin[1], tmin[2]), tmin[3])
        dst_b == FMin(FMin(tmax[1], tmax[2]), tmax[3])
        dst_to_box == FMax(F(0), dst_a)
        dst_inside_box == FMax(F(0), dst_b)
    IN  [dst_to_box |-> dst_to_box, dst_inside_box |-> dst_inside_box]

\* BoundingBox::dst
Dst(glam, bb, ray_origin, ray_dir) ==
    LET t0 == VecDiv(VecSub(bb.min, ray_origin), ray_dir)
        t1 == VecDiv(VecSub(bb.max, ray_origin), ray_dir)
        tmin == VecMin(glam, t0, t1)
        tmax == VecMax(glam, t0, t1)
        dst_a == FMax(FMax(tmin[1], tmin[2]), tmin[3])
        dst_b == FMin(FMin(tmax[1], tmax[2]), tmax[3])
        dst_to_box == FMax(F(0), dst_a)
        dst_inside_box == FMax(F(0), FSub(dst_b, dst_to_box))
    IN  [dst_to_box |-> dst_to_box, dst_inside_box |-> dst_inside_box]

\* the corner points handed to from_two_pos, ray origins and ray directions
BoxCoords == {0, MaxCoord}
OriginCoords == {-1, 0, 1, MaxCoord}
DirCoords == {-1, 0, 1}

Vec(x, y, z) == <<F(x), F(y), F(z)>>

FirstCorners == {Vec(x, y, z) : x \in BoxCoords, y \in BoxCoords, z \in BoxCoords}
SecondCorners == {Vec(0, 0, 0), Vec(MaxCoord, MaxCoord, MaxCoord)}
Origins == {Vec(x, y, z) : x \in OriginCoords, y \in OriginCoords, z \in OriginCoords}
Directions ==
    {Vec(x, y, z) : x \in DirCoords, y \in DirCoords, z \in DirCoords} \ {Vec(0, 0, 0)}

NoDst == [dst_to_box |-> F(0), dst_inside_box |-> F(0)]

\* BoundingBox::center: 0.5 * (max + min)
Center(bb) == [i \in 1..3 |-> FMul(F(1), FAdd(bb.max[i], bb.min[i]), 2)]

\* BoundingBox::corners, indexed from 0 as the array is
Corners(bb) ==
    LET x1 == bb.min[1]
        y1 == bb.min[2]
        z1 == bb.min[3]
        x2 == bb.max[1]
        y2 == bb.max[2]
        z2 == bb.max[3]
        arr == << <<x1, y1, z1>>,
                  <<x2, y1, z1>>,
                  <<x1, y1, z2>>,
                  <<x2, y2, z1>>,
                  <<x1, y2, z1>>,
                  <<x2, y1, z2>>,
                  <<x1, y2, z2>>,
                  <<x2, y2, z2>> >>
    IN  [i \in 0..7 |-> arr[i + 1]]

\* BoundingBox::edges
Edges ==
    << <<0, 1>>, <<1, 5>>, <<5, 4>>, <<4, 0>>,
       <<2, 3>>, <<3, 7>>, <<7, 6>>, <<6, 2>>,
       <<0, 2>>, <<1, 3>>, <<4, 6>>, <<5, 7>> >>

NoCorners == [i \in 0..7 |-> Vec(0, 0, 0)]

RayIdle ==
    [stage |-> "idle", glam |-> "minnum", a |-> Vec(0, 0, 0), b |-> Vec(0, 0, 0),
     bb |-> FromTwoPos(Vec(0, 0, 0), Vec(0, 0, 0)),
     o |-> Vec(0, 0, 0), d |-> Vec(1, 0, 0), res |-> NoDst,
     asked |-> {}, swapped |-> FromTwoPos(Vec(0, 0, 0), Vec(0, 0, 0)),
     has |-> FALSE, center |-> Vec(0, 0, 0), center_has |-> FALSE,
     corners |-> NoCorners, edges |-> << >>]

\* BoundingBox::from_two_pos(a, b)
BuildBox ==
    /\ ray.stage = "new"
    /\ ray' = [ray EXCEPT !.stage = "box", !.bb = FromTwoPos(ray.a, ray.b)]
    /\ UNCHANGED <<cam, trip, sc, march, par>>

\* bb.dst(ray_origin, ray_dir)
CastRay ==
    /\ ray.stage = "box"
    /\ ray' = [ray EXCEPT !.stage = "done", !.res = Dst(ray.glam, ray.bb, ray.o, ray.d)]
    /\ UNCHANGED <<cam, trip, sc, march, par>>

\* BoundingBox::from_two_pos(b, a), the two points in the other order
BuildSwapped ==
    /\ ray.stage = "box"
    /\ "swapped" \notin ray.asked
    /\ ray' = [ray EXCEPT !.asked = ray.asked \cup {"swapped"},
                          !.swapped = FromTwoPos(ray.b, ray.a)]
    /\ UNCHANGED <<cam, trip, sc, march, par>>

\* bb.contains(position), the position being ray.o
AskContains ==
    /\ ray.stage = "box"
    /\ "contains" \notin ray.asked
    /\ ray' = [ray EXCEPT !.asked = ray.asked \cup {"contains"},
                          !.has = Contains(ray.bb, ray.o)]
    /\ UNCHANGED <<cam, trip, sc, march, par>>

\* bb.contains(bb.center())
AskCenter ==
    /\ ray.stage = "box"
    /\ "center" \notin ray.asked
    /\ ray' = [ray EXCEPT !.asked = ray.asked \cup {"center"},
                          !.center = Center(ray.bb),
                          !.center_has = Contains(ray.bb, Center(ray.bb))]
    /\ UNCHANGED <<cam, trip, sc, march, par>>

\* bb.corners() and bb.edges(), as visit_bounding_box reads them
AskCorners ==
    /\ ray.stage = "box"
    /\ "corners" \notin ray.asked
    /\ ray' = [ray EXCEPT !.asked = ray.asked \cup {"corners"},
                          !.corners = Corners(ray.bb),
                          !.edges = Edges]
    /\ UNCHANGED <<cam, trip, sc, march, par>>

----------------------------------------------------------------------------
(* The march of one pixel in DrawVisitor::visit_cloud (visitor/              *)
(* draw_visitor.rs, the closure of lines 83-171).  Distances along the ray   *)
(* count 1/1000 of a world unit, transmittance and the exponent of exp count *)
(* 1/1000, densities count 1/10.  Only the alpha channel of the pixel is     *)
(* kept: light_energy and the sky and sun terms feed the colour channels.    *)

MaxSteps == 3

\* f32::exp on k halves: e^(k/2) in 1/1000, by repeated multiplication with
\* e^(1/2) = 1.649 or e^(-1/2) = 0.607
RECURSIVE ExpHalves(_)
ExpHalves(k) ==
    IF k = 0 THEN 1000
    ELSE IF k > 0 THEN Trunc(ExpHalves(k - 1) * 1649, 1000)
    ELSE Trunc(ExpHalves(k + 1) * 607, 1000)

\* f32::exp of x (in 1/1000), x rounded towards zero to a multiple of 1/2
FExp(x) ==
    IF IsNaN(x) THEN NaN
    ELSE IF IsInf(x) THEN (IF x.v > 0 THEN PInf ELSE F(0))
    ELSE F(ExpHalves(Trunc(x.v, 500)))

\* bb.dst(ray_origin, ray_dir) in the unit of the march
DstInMarchUnits(glam, bb, ray_origin, ray_dir) ==
    LET ray_box_info == Dst(glam, bb, ray_origin, ray_dir)
    IN  [dst_to_box |-> FMul(ray_box_info.dst_to_box, F(1000), 1),
         dst_inside_box |-> FMul(ray_box_info.dst_inside_box, F(1000), 1)]

\* dst_inside_box / cloud.num_steps as f32; a quotient that is not exact is
\* rounded to a neighbouring value, below ("down") or above ("up")
StepSize(rnd, dst_inside_box, num_steps) ==
    LET q == FDiv(dst_inside_box, F(num_steps), 1)
    IN  IF IsFin(q) /\ rnd = "up" /\ q.v * num_steps # dst_inside_box.v
        THEN F(q.v + 1)
        ELSE q

MutIsMissStrict(dst_inside_box) == FLt(dst_inside_box, F(0))

\* if dst_inside_box <= 0.0
IsMiss(dst_inside_box) == FLe(dst_inside_box, F(0))

\* transmittance *= (-density * step_size * light_absorption_through_cloud).exp()
Attenuate(transmittance, density, step_size, light_absorption_through_cloud) ==
    FMul(transmittance,
         FExp(FMul(FMul(FNeg(density), step_size, 10), light_absorption_through_cloud, 1)),
         1000)

\* the cloud's bounding box, the rays of the pixels, and the cloud parameters
\* the commands can set
MarchBox == FromTwoPos(Vec(0, 0, 0), Vec(MaxCoord, MaxCoord, MaxCoord))
MarchRays ==
    {[o |-> Vec(-1, 1, 1), d |-> Vec(1, 0, 0)],
     [o |-> Vec(1, 1, 1), d |-> Vec(0, 0, 1)],
     [o |-> Vec(-1, -1, 1), d |-> Vec(1, 0, 0)],
     [o |-> Vec(-1, -1, 1), d |-> Vec(1, 1, -1)]}
NumSteps == 0..MaxSteps
Absorptions == {F(-1), F(0), F(1), F(3)}

\* values of cloud.sample_density(ray_pos)
Densities == {F(0), F(5), F(10)}

\* Color32::TRANSPARENT and Color32::from_rgba_unmultiplied(r, g, b, 255)
TransparentAlpha == 0
OpaqueAlpha == 255

MarchIdle ==
    [stage |-> "idle", glam |-> "minnum", rnd |-> "down", o |-> Vec(0, 0, 0),
     d |-> Vec(1, 0, 0), num_steps |-> 1, absorption |-> F(0),
     dst_to_box |-> F(0), dst_inside_box |-> F(0), dst_limit |-> F(0),
     step_size |-> F(0), dst_travelled |-> F(0), transmittance |-> F(1000),
     before |-> F(1000), samples |-> 0, broke |-> FALSE, alpha |-> TransparentAlpha]

\* lines 97-112: the ray against the box and the set-up of the march; a miss
\* writes Color32::TRANSPARENT
MarchBegin ==
    /\ march.stage = "pixel"
    /\ LET info == DstInMarchUnits(march.glam, MarchBox, march.o, march.d)
           m == [march EXCEPT
                    !.dst_to_box = info.dst_to_box,
                    !.dst_inside_box = info.dst_inside_box,
                    !.dst_travelled = F(0),
                    !.dst_limit = FMin(info.dst_inside_box, FSub(PInf, info.dst_to_box)),
                    !.step_size = StepSize(march.rnd, info.dst_inside_box, march.num_steps),
                    !.transmittance = F(1000),
                    !.before = F(1000)]
       IN  IF IsMiss(info.dst_inside_box)
           THEN march' = [m EXCEPT !.stage = "done", !.alpha = TransparentAlpha]
           ELSE march' = [m EXCEPT !.stage = "loop"]
    /\ UNCHANGED <<cam, trip, sc, ray, par>>

\* lines 115-133: one pass of the while loop
MarchStep ==
    /\ march.stage = "loop"
    /\ ~march.broke
    /\ FLt(march.dst_travelled, march.dst_limit)
    /\ \E density \in Densities :
          LET t1 == IF FLt(F(0), density)
                    THEN Attenuate(march.transmittance, density, march.step_size,
                                   march.absorption)
                    ELSE march.transmittance
              brk == FLt(F(0), density) /\ FLt(t1, F(10))
          IN  march' = [march EXCEPT
                           !.before = march.transmittance,
                           !.transmittance = t1,
                           !.samples = march.samples + 1,
                           !.broke = brk,
                           !.dst_travelled =
                               IF brk THEN march.dst_travelled
                               ELSE FAdd(march.dst_travelled, march.step_size)]
    /\ UNCHANGED <<cam, trip, sc, ray, par>>

\* lines 135-169: the loop has ended; the colour is packed with alpha 255
MarchCompose ==
    /\ march.stage = "loop"
    /\ march.broke \/ ~FLt(march.dst_travelled, march.dst_limit)
    /\ march' = [march EXCEPT !.stage = "done", !.alpha = OpaqueAlpha]
    /\ UNCHANGED <<cam, trip, sc, ray, par>>

----------------------------------------------------------------------------
(* The parallel pixel loop of DrawVisitor::visit_cloud (visitor/             *)
(* draw_visitor.rs, lines 63-184).  Screen coordinates count whole pixels.   *)
(* A pixel's colour is a function of the canvas pixel its ray goes through   *)
(* (the cloud and the camera are borrowed immutably), so an element of the   *)
(* image is modelled by that canvas pixel.                                   *)

MaxSide == 2

\* the threads of the rayon pool
Workers == {"w1", "w2"}

\* f32 as usize: the fraction is dropped, a negative value becomes 0
AsUsize(x) == IF x < 0 THEN 0 ELSE x

\* Color32::TRANSPARENT, the fill of egui::ColorImage::new
TransparentPixel == [written |-> FALSE, i |-> 0, j |-> 0]

\* the number of elements of img.pixels
NumPixels(w, h) == w * h

\* egui::ColorImage::new([w, h], Color32::TRANSPARENT)
NewImage(w, h) == [idx \in 0..(NumPixels(w, h) - 1) |-> TransparentPixel]

\* lines 84-95: the canvas pixel (i, j) of the ray of element idx
PixelOf(idx, w, min_tuple) ==
    [written |-> TRUE,
     i |-> (idx \div w) + AsUsize(min_tuple[2]),
     j |-> (idx % w) + AsUsize(min_tuple[1])]

MutPixelTargetNext(idx, n) == (idx + 1) % n

\* par_iter_mut().enumerate(): the closure called with idx holds the mutable
\* reference to element idx of the n elements
PixelTarget(idx, n) == idx

\* the projected corners' bounding rectangle: its top-left corners and sizes
RectMins == {<<-1, -1>>, <<1, 2>>}
RectSides == 0..MaxSide

NoTask == -1

ParIdle ==
    [stage |-> "idle", min_tuple |-> <<0, 0>>, max_tuple |-> <<0, 0>>, w |-> 0, h |-> 0,
     img |-> NewImage(0, 0), writes |-> NewImage(0, 0), writer |-> NewImage(0, 0),
     started |-> {},
     task |-> [wk \in Workers |-> NoTask],
     val |-> [wk \in Workers |-> TransparentPixel],
     texture |-> NewImage(0, 0)]

\* lines 73-79: the size of the buffer and the buffer
RenderBegin ==
    /\ par.stage = "rect"
    /\ LET w == AsUsize(par.max_tuple[1] - par.min_tuple[1])
           h == AsUsize(par.max_tuple[2] - par.min_tuple[2])
       IN  par' = [par EXCEPT
                      !.stage = "pixels", !.w = w, !.h = h,
                      !.img = NewImage(w, h),
                      !.writes = [idx \in 0..(NumPixels(w, h) - 1) |-> 0],
                      !.writer = [idx \in 0..(NumPixels(w, h) - 1) |-> NoTask]]
    /\ UNCHANGED <<cam, trip, sc, ray, march>>

\* a pool thread takes the closure call of element idx and computes its colour
PixelStart ==
    /\ par.stage = "pixels"
    /\ \E wk \in Workers, idx \in DOMAIN par.img :
          /\ par.task[wk] = NoTask
          /\ idx \notin par.started
          /\ par' = [par EXCEPT
                        !.started = par.started \cup {idx},
                        !.task[wk] = idx,
                        !.val[wk] = PixelOf(idx, par.w, par.min_tuple)]
    /\ UNCHANGED <<cam, trip, sc, ray, march>>

\* *pixel = ...: the thread stores the colour through its reference
PixelWrite ==
    /\ par.stage = "pixels"
    /\ \E wk \in Workers :
          /\ par.task[wk] # NoTask
          /\ LET target == PixelTarget(par.task[wk], NumPixels(par.w, par.h))
             IN  par' = [par EXCEPT
                            !.img[target] = par.val[wk],
                            !.writes[target] = par.writes[target] + 1,
                            !.writer[target] = par.task[wk],
                            !.task[wk] = NoTask]
    /\ UNCHANGED <<cam, trip, sc, ray, march>>

\* for_each returns when every closure call has returned
AllPixelsDone ==
    /\ par.started = DOMAIN par.img
    /\ \A wk \in Workers : par.task[wk] = NoTask

\* lines 174-184: load_texture takes the image, canvas.image draws it
TextureUpload ==
    /\ par.stage = "pixels"
    /\ AllPixelsDone
    /\ par' = [par EXCEPT !.stage = "uploaded", !.texture = par.img]
    /\ UNCHANGED <<cam, trip, sc, ray, march>>

----------------------------------------------------------------------------
(* Scene and scene commands (facade/command/scene_command.rs).  A parameter  *)
(* value is a token 0, 1, ...: the commands only store it.                   *)

MaxCommands == 2

Names == {"cloud", "sun", "ghost"}

\* Cloud parameters written by the commands
CloudFields ==
    {"num_steps", "num_steps_light", "cloud_scale", "ray_offset_strength",
     "density_multiplier", "density_threshold", "density_offset", "offset",
     "alpha_threshold", "noise", "detail_noise", "detail_noise_scale",
     "detail_noise_weight", "detail_weights", "shape_noise_weights", "phase_params",
     "shape_offset", "detail_offset", "light_absorption_toward_sun",
     "light_absorption_through_cloud", "darkness_threshold", "light_color", "col_a",
     "col_b", "edge_distance", "volume_offset", "height_map_factor"}

\* Component::Cloud, Component::Sun, Component::BoundingBox
CloudComponent == [kind |-> "Cloud", p |-> [f \in CloudFields |-> 0]]
SunComponent == [kind |-> "Sun", p |-> [f \in {"d", "angle"} |-> 0]]
BoundingBoxComponent == [kind |-> "BoundingBox", p |-> [f \in {"min", "max"} |-> 0]]

Components == {CloudComponent, SunComponent, BoundingBoxComponent}

\* the cloud arms of SceneCommand::exec: the variant and the parameter it writes
CloudCommandField(kind) ==
    CASE kind = "SetNumSteps" -> "num_steps"
      [] kind = "SetNumStepsLight" -> "num_steps_light"
      [] kind = "SetCloudScale" -> "cloud_scale"
      [] kind = "SetRayOffsetStrength" -> "ray_offset_strength"
      [] kind = "SetDensityMultiplier" -> "density_multiplier"
      [] kind = "SetDensityThreshold" -> "density_threshold"
      [] kind = "SetDensityOffset" -> "density_offset"
      [] kind = "SetOffset" -> "offset"
      [] kind = "SetAlphaThreshold" -> "alpha_threshold"
      [] kind = "SetNoise" -> "noise"
      [] kind = "SetDetailNoise" -> "detail_noise"
      [] kind = "SetDetailNoiseScale" -> "detail_noise_scale"
      [] kind = "SetDetailNoiseWeight" -> "detail_noise_weight"
      [] kind = "SetDetailWeights" -> "detail_weights"
      [] kind = "SetShapeNoiseWeights" -> "shape_noise_weights"
      [] kind = "SetPhaseParams" -> "phase_params"
      [] kind = "SetShapeOffset" -> "shape_offset"
      [] kind = "SetDetailOffset" -> "detail_offset"
      [] kind = "SetLightAbsorptionTowardSun" -> "light_absorption_toward_sun"
      [] kind = "SetLightAbsorptionThroughCloud" -> "light_absorption_through_cloud"
      [] kind = "SetDarknessThreshold" -> "darkness_threshold"
      [] kind = "SetLightColor" -> "light_color"
      [] kind = "SetColA" -> "col_a"
      [] kind = "SetColB" -> "col_b"
      [] kind = "SetEdgeDistance" -> "edge_distance"
      [] kind = "SetVolumeOffset" -> "volume_offset"
      [] kind = "SetHeightMapFactor" -> "height_map_factor"

CloudCommandKinds ==
    {"SetNumSteps", "SetNumStepsLight", "SetCloudScale", "SetRayOffsetStrength",
     "SetDensityMultiplier", "SetDensityThreshold", "SetDensityOffset", "SetOffset",
     "SetAlphaThreshold", "SetNoise", "SetDetailNoise", "SetDetailNoiseScale",
     "SetDetailNoiseWeight", "SetDetailWeights", "SetShapeNoiseWeights",
     "SetPhaseParams", "SetShapeOffset", "SetDetailOffset",
     "SetLightAbsorptionTowardSun", "SetLightAbsorptionThroughCloud",
     "SetDarknessThreshold", "SetLightColor", "SetColA", "SetColB", "SetEdgeDistance",
     "SetVolumeOffset", "SetHeightMapFactor"}

SunCommandKinds == {"SetSunDistance", "SetSunAngle"}

SetCommandKinds == CloudCommandKinds \cup SunCommandKinds

\* the values carried by the Set* commands
CommandValues == {1}

\* SceneManager::add_object: append to the list at name, creating the entry
AddObject(scene, name, component) ==
    IF name \in DOMAIN scene
    THEN [scene EXCEPT ![name] = Append(scene[name], component)]
    ELSE [n \in DOMAIN scene \cup {name} |->
             IF n = name THEN <<component>> ELSE scene[n]]

\* SceneManager::get_mut_object: the list at name, if any
HasObject(scene, name) == name \in DOMAIN scene

MutSetCloudParamInsert(scene, id, field, value) ==
    AddObject(scene, id, [CloudComponent EXCEPT !.p[field] = value])

MutSetCloudParamAdd(scene, id, field, value) ==
    IF HasObject(scene, id)
    THEN [scene EXCEPT ![id] =
             [i \in 1..Len(scene[id]) |->
                 IF scene[id][i].kind = "Cloud"
                 THEN [scene[id][i] EXCEPT !.p[field] = scene[id][i].p[field] + value]
                 ELSE scene[id][i]]]
    ELSE scene

MutSetCloudParamFirst(scene, id, field, value) ==
    IF HasObject(scene, id)
    THEN [scene EXCEPT ![id] =
             [i \in 1..Len(scene[id]) |->
                 IF scene[id][i].kind = "Cloud" /\ i = 1
                 THEN [scene[id][i] EXCEPT !.p[field] = value]
                 ELSE scene[id][i]]]
    ELSE scene

\* A cloud arm of SceneCommand::exec: if let Some(comp) = get_mut_object(id),
\* every Component::Cloud of comp gets cloud.<field> = value
SetCloudParam(scene, id, field, value) ==
    IF HasObject(scene, id)
    THEN [scene EXCEPT ![id] =
             [i \in 1..Len(scene[id]) |->
                 IF scene[id][i].kind = "Cloud"
                 THEN [scene[id][i] EXCEPT !.p[field] = value]
                 ELSE scene[id][i]]]
    ELSE scene

\* Sun::set_d and Sun::prepend_angle: the sun's distance or angle becomes the
\* value of the command
SunCommandField(kind) ==
    CASE kind = "SetSunDistance" -> "d"
      [] kind = "SetSunAngle" -> "angle"

\* A sun arm of SceneCommand::exec: if let Some(Component::Sun(sun)) =
\* get_mut_object(id), the sun gets the value
SetSunParam(scene, id, field, value) ==
    IF HasObject(scene, id)
    THEN [scene EXCEPT ![id] =
             [i \in 1..Len(scene[id]) |->
                 IF scene[id][i].kind = "Sun"
                 THEN [scene[id][i] EXCEPT !.p[field] = value]
                 ELSE scene[id][i]]]
    ELSE scene

\* the list without the components equal to component
Without(list, component) == SelectSeq(list, LAMBDA c : c # component)

MutExecRemoves(cmd, scene) ==
    CASE cmd.kind = "AddObject" -> AddObject(scene, cmd.id, cmd.comp)
      [] cmd.kind = "GetObject" -> scene
      [] cmd.kind = "RemoveObject" -> [n \in DOMAIN scene |-> Without(scene[n], cmd.comp)]
      [] cmd.kind \in CloudCommandKinds ->
            SetCloudParam(scene, cmd.id, CloudCommandField(cmd.kind), cmd.value)
      [] cmd.kind \in SunCommandKinds ->
            SetSunParam(scene, cmd.id, SunCommandField(cmd.kind), cmd.value)

\* SceneCommand::exec
Exec(cmd, scene) ==
    CASE cmd.kind = "AddObject" -> AddObject(scene, cmd.id, cmd.comp)
      [] cmd.kind = "GetObject" -> scene
      [] cmd.kind = "RemoveObject" -> scene
      [] cmd.kind \in CloudCommandKinds ->
            SetCloudParam(scene, cmd.id, CloudCommandField(cmd.kind), cmd.value)
      [] cmd.kind \in SunCommandKinds ->
            SetSunParam(scene, cmd.id, SunCommandField(cmd.kind), cmd.value)

NoCommand == [kind |-> "none", id |-> "", value |-> 0, comp |-> BoundingBoxComponent]

\* a scene as the application builds it with add_object: a cloud with its
\* bounding box under one name, the sun under another
InitialScene ==
    AddObject(AddObject(AddObject(<<>>, "cloud", CloudComponent),
                        "cloud", BoundingBoxComponent),
              "sun", SunComponent)

ScIdle ==
    [scene |-> InitialScene, last |-> NoCommand, prev |-> NoCommand,
     before |-> InitialScene, n |-> 0]

\* one command executed on the scene
Executed(cmd) ==
    /\ sc.n < MaxCommands
    /\ sc' = [scene |-> Exec(cmd, sc.scene), last |-> cmd, prev |-> sc.last,
              before |-> sc.scene, n |-> sc.n + 1]
    /\ UNCHANGED <<cam, trip, ray, march, par>>

ExecAddObject ==
    \E id \in Names, comp \in Components :
        Executed([kind |-> "AddObject", id |-> id, value |-> 0, comp |-> comp])

ExecGetObject ==
    \E comp \in Components :
        Executed([kind |-> "GetObject", id |-> "", value |-> 0, comp |-> comp])

ExecRemoveObject ==
    \E comp \in Components :
        Executed([kind |-> "RemoveObject", id |-> "", value |-> 0, comp |-> comp])

ExecSetCloud ==
    \E kind \in CloudCommandKinds, id \in Names, value \in CommandValues :
        Executed([kind |-> kind, id |-> id, value |-> value, comp |-> BoundingBoxComponent])

ExecSetSun ==
    \E kind \in SunCommandKinds, id \in Names, value \in CommandValues :
        Executed([kind |-> kind, id |-> id, value |-> value, comp |-> BoundingBoxComponent])

\* the camera and the operation that acted on it last
CamIdle == [c |-> DefaultCamera, op |-> "none"]

\* Camera::pivot
CameraPivot ==
    \E dx \in PivotDeltas, dy \in PivotDeltas :
        LET v == Pivot(cam.c.control, cam.c.view, dx, dy)
        IN  /\ InCamBounds(v)
            /\ cam' = [c |-> [cam.c EXCEPT !.view = v], op |-> "pivot"]
            /\ UNCHANGED <<trip, sc, ray, march, par>>

\* Camera::pan
CameraPan ==
    \E dx \in PanDeltas, dy \in PanDeltas :
        \E wd \in PanWorldDeltas(PanScreenDelta(cam.c.control, cam.c.view, dx, dy)) :
            LET v == Pan(cam.c.view, wd)
            IN  /\ InCamBounds(v)
                /\ cam' = [c |-> [cam.c EXCEPT !.view = v], op |-> "pan"]
                /\ UNCHANGED <<trip, sc, ray, march, par>>

\* Camera::zoom
CameraZoom ==
    \E d \in ZoomDeltas :
        LET v == Zoom(cam.c.control, cam.c.view, d)
        IN  /\ InCamBounds(v)
            /\ cam' = [c |-> [cam.c EXCEPT !.view = v], op |-> "zoom"]
            /\ UNCHANGED <<trip, sc, ray, march, par>>

TripIdle == [stage |-> "start", a |-> F(0), b |-> F(0), c |-> DefaultCamera]

InitCamera ==
    /\ cam = CamIdle
    /\ trip = TripIdle
    /\ sc = ScIdle
    /\ ray = RayIdle
    /\ march = MarchIdle
    /\ par = ParIdle

NextCamera == CameraPivot \/ CameraPan \/ CameraZoom

SpecCamera == InitCamera /\ [][NextCamera]_vars

----------------------------------------------------------------------------
(* C1: after any sequence of pivot, pan and zoom calls the arcball pitch     *)
(* lies in [-pi/2, pi/2].                                                    *)
PitchInRange ==
    /\ FLe(F(-FRAC_PI_2), cam.c.view.pitch)
    /\ FLe(cam.c.view.pitch, F(FRAC_PI_2))

(* C2: in every state reached from the default camera by pivot, pan and      *)
(* zoom calls, arcball.distance is at least control.closest_zoom.            *)
DistanceAtLeastClosest == FLe(cam.c.control.closest_zoom, cam.c.view.distance)

\* a zoom has pulled the distance down to closest_zoom
DistanceWitness ==
    /\ cam.c.view.distance = cam.c.control.closest_zoom
    /\ cam.c.view # DefaultArcBall

\* a pivot has run into the clamp
PitchWitness ==
    /\ cam.c.view.pitch = F(FRAC_PI_2)
    /\ cam.c.view.yaw # DefaultArcBall.yaw

----------------------------------------------------------------------------
(* pivot(a, b) followed by pivot(-a, -b) on the default camera               *)

TripDeltas == {F(-400), F(-315), F(-314), F(-100), F(0), F(100), F(314), F(315), F(400),
               NaN, PInf}

\* camera.pivot(a, b) on Camera::default()
TripThere ==
    /\ trip.stage = "start"
    /\ \E a \in TripDeltas, b \in TripDeltas :
          trip' = [stage |-> "there", a |-> a, b |-> b,
                   c |-> [trip.c EXCEPT !.view = Pivot(trip.c.control, trip.c.view, a, b)]]
    /\ UNCHANGED <<cam, sc, ray, march, par>>

\* camera.pivot(-a, -b)
TripBack ==
    /\ trip.stage = "there"
    /\ trip' = [trip EXCEPT
                   !.stage = "back",
                   !.c = [trip.c EXCEPT
                             !.view = Pivot(trip.c.control, trip.c.view,
                                            FNeg(trip.a), FNeg(trip.b))]]
    /\ UNCHANGED <<cam, sc, ray, march, par>>

InitRoundTrip == InitCamera

NextRoundTrip == TripThere \/ TripBack

SpecRoundTrip == InitRoundTrip /\ [][NextRoundTrip]_vars

\* the pitch that pivot(a, b) asks for stays within the clamp
TripUnclamped ==
    /\ IsFin(trip.a)
    /\ IsFin(trip.b)
    /\ Abs(FMul(trip.b, trip.c.control.swivel_sensitivity, 1).v) <= FRAC_PI_2

(* C8 as stated: for all deltas a and b, pivot(a, b) followed by             *)
(* pivot(-a, -b) returns the default camera to its previous state.           *)
RoundTripAlways == trip.stage = "back" => trip.c = DefaultCamera

(* C8 as amended: for all finite deltas a and b with |b * swivel_sensitivity| *)
(* <= pi/2, pivot(a, b) followed by pivot(-a, -b) returns the default camera  *)
(* to its previous state.                                                     *)
RoundTripUnclamped == (trip.stage = "back" /\ TripUnclamped) => trip.c = DefaultCamera

\* a round trip that moved both angles and came back
RoundTripWitness ==
    /\ trip.stage = "back"
    /\ trip.a = F(400)
    /\ trip.b = F(-314)
    /\ trip.c = DefaultCamera

----------------------------------------------------------------------------
(* Scene commands                                                            *)

InitScene == InitCamera

NextScene == ExecAddObject \/ ExecGetObject \/ ExecRemoveObject \/ ExecSetCloud \/ ExecSetSun

SpecScene == InitScene /\ [][NextScene]_vars

\* the kind of component a Set* command edits
EditedKind(cmd) == IF cmd.kind \in SunCommandKinds THEN "Sun" ELSE "Cloud"

\* the command finds a component of its kind under its name
HasTarget(cmd, scene) ==
    /\ cmd.id \in DOMAIN scene
    /\ \E i \in 1..Len(scene[cmd.id]) : scene[cmd.id][i].kind = EditedKind(cmd)

(* C3: a Set* command whose name is not in the scene, or whose name holds    *)
(* only components of another kind than the command edits, leaves every      *)
(* component of the scene unchanged.                                         *)
SetWithoutTargetIsNoOp ==
    (sc.last.kind \in SetCommandKinds /\ ~HasTarget(sc.last, sc.before))
        => sc.scene = sc.before

\* a cloud command on the sun's name, after a command that did change the scene
SetWithoutTargetWitness ==
    /\ sc.last.kind = "SetNumSteps"
    /\ sc.last.id = "sun"
    /\ sc.prev.kind = "SetSunDistance"
    /\ sc.prev.id = "sun"
    /\ sc.scene = sc.before
    /\ sc.scene # InitialScene

CloudsIn(list) == {i \in 1..Len(list) : list[i].kind = "Cloud"}

(* C15: a cloud set-command (name, value) on a name present in the scene    *)
(* sets its parameter to value on every Cloud component of the name's list  *)
(* and leaves unchanged the other parameters of those clouds, the other     *)
(* components of the list, its length and order, and the components under   *)
(* every other name.                                                        *)
CloudSetChangesOnlyItsParameter ==
    (sc.last.kind \in CloudCommandKinds /\ sc.last.id \in DOMAIN sc.before) =>
        LET id == sc.last.id
            field == CloudCommandField(sc.last.kind)
        IN  /\ DOMAIN sc.scene = DOMAIN sc.before
            /\ \A n \in DOMAIN sc.before \ {id} : sc.scene[n] = sc.before[n]
            /\ Len(sc.scene[id]) = Len(sc.before[id])
            /\ \A i \in 1..Len(sc.before[id]) :
                  IF i \in CloudsIn(sc.before[id])
                  THEN /\ sc.scene[id][i].kind = "Cloud"
                       /\ sc.scene[id][i].p[field] = sc.last.value
                       /\ \A f \in CloudFields \ {field} :
                             sc.scene[id][i].p[f] = sc.before[id][i].p[f]
                  ELSE sc.scene[id][i] = sc.before[id][i]

\* a cloud command on a list that holds two clouds and a bounding box
CloudSetWitness ==
    /\ sc.last.kind = "SetCloudScale"
    /\ sc.last.id = "cloud"
    /\ sc.prev.kind = "AddObject"
    /\ Cardinality(CloudsIn(sc.before["cloud"])) = 2
    /\ \A i \in CloudsIn(sc.scene["cloud"]) : sc.scene["cloud"][i].p["cloud_scale"] = 1
    /\ sc.scene # sc.before

(* C19: GetObject and RemoveObject leave the scene unchanged, and AddObject *)
(* (name, component) does what add_object(name, component) does: it appends *)
(* the component to the list at name, creating the entry if absent, and     *)
(* changes nothing else.                                                    *)
OnlyAddObjectChangesScene ==
    /\ sc.last.kind \in {"GetObject", "RemoveObject"} => sc.scene = sc.before
    /\ sc.last.kind = "AddObject" =>
          /\ DOMAIN sc.scene = DOMAIN sc.before \cup {sc.last.id}
          /\ \A n \in DOMAIN sc.before \ {sc.last.id} : sc.scene[n] = sc.before[n]
          /\ sc.scene[sc.last.id] =
                IF sc.last.id \in DOMAIN sc.before
                THEN sc.before[sc.last.id] \o <<sc.last.comp>>
                ELSE <<sc.last.comp>>
          /\ sc.scene # sc.before

\* RemoveObject of a component that the scene holds, after an AddObject
RemoveKeepsWitness ==
    /\ sc.last.kind = "RemoveObject"
    /\ sc.prev.kind = "AddObject"
    /\ sc.prev.id = "ghost"
    /\ sc.last.comp = sc.prev.comp
    /\ "ghost" \in DOMAIN sc.scene
    /\ sc.scene["ghost"] = <<sc.last.comp>>

----------------------------------------------------------------------------
(* Ray against box                                                           *)

InitDst ==
    /\ cam = CamIdle
    /\ trip = TripIdle
    /\ sc = ScIdle
    /\ march = MarchIdle
    /\ par = ParIdle
    /\ \E glam \in {"minnum", "compare"}, a \in FirstCorners, b \in SecondCorners,
          o \in Origins, d \in Directions :
          ray = [RayIdle EXCEPT !.stage = "new", !.glam = glam, !.a = a, !.b = b,
                                !.o = o, !.d = d]

NextDst == BuildBox \/ CastRay

SpecDst == InitDst /\ [][NextDst]_vars

\* the point of the ray at parameter t
RayPoint(t) == [i \in 1..3 |-> FAdd(ray.o[i], FMul(F(t), ray.d[i], 1))]

\* Corners, origins and directions are whole numbers and the direction
\* components are -1, 0 or 1, so the ray is inside the box over an interval of
\* parameters with whole-number ends, at most MaxCoord + 1 away from the origin.
RayParams == 0..(MaxCoord + 2)

\* the ray has a point in common with the box
RayHits == \E t \in RayParams : Contains(ray.bb, RayPoint(t))

\* the ray has a segment of positive length in common with the box
RayCrosses ==
    \E t \in RayParams : Contains(ray.bb, RayPoint(t)) /\ Contains(ray.bb, RayPoint(t + 1))

\* min <= max on every axis
BoxOrdered == \A i \in 1..3 : FLe(ray.bb.min[i], ray.bb.max[i])

\* the origin is strictly inside the box
OriginStrictlyInside ==
    \A i \in 1..3 : FLt(ray.bb.min[i], ray.o[i]) /\ FLt(ray.o[i], ray.bb.max[i])

\* no slab division of dst is 0 / 0
NoNaNQuotient ==
    \A i \in 1..3 :
        ray.d[i] = F(0) => (ray.o[i] # ray.bb.min[i] /\ ray.o[i] # ray.bb.max[i])

(* C5 as stated: for a box with min <= max and a ray whose origin satisfies  *)
(* contains(origin), boundary included, dst returns dst_to_box == 0 and      *)
(* dst_inside_box > 0.                                                       *)
OriginInsideBoundaryIncluded ==
    (ray.stage = "done" /\ BoxOrdered /\ Contains(ray.bb, ray.o))
        => (ray.res.dst_to_box = F(0) /\ FLt(F(0), ray.res.dst_inside_box))

(* C5 as amended: for a box and a ray whose origin is strictly inside the    *)
(* box (min < origin < max on every axis), dst returns dst_to_box == 0 and   *)
(* dst_inside_box > 0.                                                       *)
OriginStrictlyInsideBox ==
    (ray.stage = "done" /\ OriginStrictlyInside)
        => (ray.res.dst_to_box = F(0) /\ FLt(F(0), ray.res.dst_inside_box))

\* a ray from the centre of the cube along an axis
OriginInsideWitness ==
    /\ ray.stage = "done"
    /\ OriginStrictlyInside
    /\ ray.d = Vec(0, -1, 0)
    /\ ray.res = [dst_to_box |-> F(0), dst_inside_box |-> F(1)]

----------------------------------------------------------------------------
(* The march of one pixel                                                    *)

InitMarch ==
    /\ cam = CamIdle
    /\ trip = TripIdle
    /\ sc = ScIdle
    /\ ray = RayIdle
    /\ par = ParIdle
    /\ \E glam \in {"minnum", "compare"}, rnd \in {"down", "up"}, r \in MarchRays,
          n \in NumSteps, a \in Absorptions :
          march = [MarchIdle EXCEPT !.stage = "pixel", !.glam = glam, !.rnd = rnd,
                                    !.o = r.o, !.d = r.d, !.num_steps = n,
                                    !.absorption = a]

NextMarch == MarchBegin \/ MarchStep \/ MarchCompose

SpecMarch == InitMarch /\ [][NextMarch]_vars

(* C7: during the march transmittance starts at 1, never increases from one  *)
(* step to the next and stays within [0, 1], for any cloud parameters the    *)
(* commands can set.                                                         *)
TransmittanceNonIncreasing ==
    march.stage \in {"loop", "done"} =>
        /\ march.samples = 0 => march.transmittance = F(1000)
        /\ FLe(march.transmittance, march.before)
        /\ FLe(F(0), march.transmittance)
        /\ FLe(march.transmittance, F(1000))

(* C9: a pixel whose ray misses the box (dst_inside_box <= 0) is fully       *)
(* transparent and no march is performed; any other pixel is written with    *)
(* alpha 255.                                                                *)
MissTransparentElseOpaque ==
    march.stage = "done" =>
        IF FLe(march.dst_inside_box, F(0))
        THEN march.alpha = 0 /\ march.samples = 0
        ELSE march.alpha = 255

\* a ray that touches the box in one point: dst_inside_box is 0, the pixel
\* is transparent
MissWitness ==
    /\ march.stage = "done"
    /\ march.d = Vec(1, 1, -1)
    /\ march.dst_inside_box = F(0)
    /\ march.alpha = 0

\* the pixel's ray hits the box and the march has been set up
MarchOfHit ==
    /\ march.stage \in {"loop", "done"}
    /\ FLt(F(0), march.dst_inside_box)

(* C16: for a pixel whose ray hits the box and num_steps >= 1, the loop     *)
(* samples the density at most num_steps times, the k-th sample (from 0) at *)
(* distance k * step_size from the entry point with step_size =             *)
(* dst_inside_box / num_steps, and it stops sampling as soon as             *)
(* transmittance has dropped below 0.01.                                    *)
MarchSamplesAtMostNumSteps ==
    (MarchOfHit /\ march.num_steps >= 1) =>
        /\ march.samples <= march.num_steps
        /\ IsFin(march.step_size)
        /\ Abs(march.step_size.v * march.num_steps - march.dst_inside_box.v)
              < march.num_steps
        /\ ~march.broke => march.dst_travelled = F(march.samples * march.step_size.v)
        /\ march.broke <=> FLt(march.transmittance, F(10))

----------------------------------------------------------------------------
(* The parallel pixel loop                                                   *)

InitRender ==
    /\ cam = CamIdle
    /\ trip = TripIdle
    /\ sc = ScIdle
    /\ ray = RayIdle
    /\ march = MarchIdle
    /\ \E mn \in RectMins, w \in RectSides, h \in RectSides :
          par = [ParIdle EXCEPT !.stage = "rect", !.min_tuple = mn,
                                !.max_tuple = <<mn[1] + w, mn[2] + h>>]

NextRender == RenderBegin \/ PixelStart \/ PixelWrite \/ TextureUpload

SpecRender == InitRender /\ [][NextRender]_vars

\* the image a sequential loop over the elements produces
SequentialImage ==
    [idx \in 0..(NumPixels(par.w, par.h) - 1) |-> PixelOf(idx, par.w, par.min_tuple)]

(* C10: in every interleaving of the pixel workers each element of the image *)
(* is written at most once, and only by the closure call of its own index;   *)
(* load_texture is called only after every element has been written once,    *)
(* and the uploaded image is the one a sequential loop would produce.        *)
PixelsWrittenOnceThenUploaded ==
    /\ \A idx \in DOMAIN par.writes :
          /\ par.writes[idx] <= 1
          /\ par.writes[idx] = 1 => par.writer[idx] = idx
    /\ par.stage = "uploaded" =>
          /\ \A idx \in DOMAIN par.writes : par.writes[idx] = 1
          /\ par.texture = SequentialImage

\* the upload of a 2 x 2 image, all four elements written
UploadWitness ==
    /\ par.stage = "uploaded"
    /\ par.w = 2
    /\ par.h = 2
    /\ par.texture = SequentialImage
    /\ par.texture[3].i # par.texture[0].i

----------------------------------------------------------------------------
(* What each camera operation leaves alone                                   *)

\* the step leaves the projection and the controller parameters as they were
KeepsProjControl == cam'.c.proj = cam.c.proj /\ cam'.c.control = cam.c.control

\* what a step leaves as it was when it changes only yaw and pitch, only the
\* distance, only the pivot point
KeepsAllButAngles ==
    /\ KeepsProjControl
    /\ cam'.c.view.distance = cam.c.view.distance
    /\ cam'.c.view.pivot = cam.c.view.pivot

KeepsAllButDistance ==
    /\ KeepsProjControl
    /\ cam'.c.view.yaw = cam.c.view.yaw
    /\ cam'.c.view.pitch = cam.c.view.pitch
    /\ cam'.c.view.pivot = cam.c.view.pivot

KeepsAllButPivot ==
    /\ KeepsProjControl
    /\ cam'.c.view.yaw = cam.c.view.yaw
    /\ cam'.c.view.pitch = cam.c.view.pitch
    /\ cam'.c.view.distance = cam.c.view.distance

(* C14: pivot changes only yaw and pitch, zoom changes only distance, pan   *)
(* changes only the pivot point, none of them changes the projection or the *)
(* controller parameters, and the eye position of get_position() is         *)
(* unchanged by pan.                                                        *)
OperationsChangeOwnPart ==
    [][/\ cam'.op = "pivot" => KeepsAllButAngles
       /\ cam'.op = "zoom" => KeepsAllButDistance
       /\ cam'.op = "pan" => (KeepsAllButPivot /\ Eye(cam'.c.view) = Eye(cam.c.view))]_vars

\* a camera that has been pivoted, zoomed and panned, its eye off the axes
OwnPartWitness ==
    /\ cam.c.view.pivot # DefaultArcBall.pivot
    /\ \A i \in 1..3 : IsFin(cam.c.view.pivot[i])
    /\ IsFin(cam.c.view.yaw) /\ cam.c.view.yaw.v # 0
    /\ IsFin(cam.c.view.pitch) /\ cam.c.view.pitch.v # 0
    /\ IsFin(cam.c.view.distance) /\ cam.c.view.distance.v # DefaultArcBall.distance.v
    /\ \A i \in 1..3 : IsFin(Eye(cam.c.view)[i]) /\ Eye(cam.c.view)[i].v # 0

----------------------------------------------------------------------------
(* Axis-parallel rays against the box                                        *)

\* the axes along which the ray moves, and those along which it does not
MovingAxes == {i \in 1..3 : ray.d[i] # F(0)}
ZeroAxes == {i \in 1..3 : ray.d[i] = F(0)}

\* the ray is parallel to an axis, with a unit direction
AxisParallel == Cardinality(MovingAxes) = 1

\* the origin is outside the box, the box ahead of it along axis m
InFront(m) ==
    \/ ray.d[m].v = 1 /\ ray.o[m].v < ray.bb.min[m].v
    \/ ray.d[m].v = -1 /\ ray.o[m].v > ray.bb.max[m].v

\* the distance from the origin to the face of entry along axis m
EntryDistance(m) ==
    IF ray.d[m].v = 1 THEN ray.bb.min[m].v - ray.o[m].v ELSE ray.o[m].v - ray.bb.max[m].v

\* the origin is on a slab plane of an axis the ray does not move along
OnZeroAxisSlab ==
    \E i \in ZeroAxes : ray.o[i] = ray.bb.min[i] \/ ray.o[i] = ray.bb.max[i]

(* C13: for an axis-parallel ray with a unit direction, if the origin is    *)
(* within the box's extent on every zero-direction axis (strictly, or on a  *)
(* slab plane, which is then non-limiting) and in front of the box on the   *)
(* moving axis, dst returns (distance to the entry face, box size along the *)
(* moving axis); if the origin is outside the extent on a zero-direction    *)
(* axis the ray is a miss.                                                  *)
AxisParallelDst ==
    (ray.stage = "done" /\ AxisParallel) =>
        \A m \in MovingAxes :
            /\ (/\ InFront(m)
                /\ \A i \in ZeroAxes : /\ ray.bb.min[i].v <= ray.o[i].v
                                       /\ ray.o[i].v <= ray.bb.max[i].v)
                  => ray.res = [dst_to_box |-> F(EntryDistance(m)),
                                dst_inside_box |-> F(ray.bb.max[m].v - ray.bb.min[m].v)]
            /\ (\E i \in ZeroAxes : \/ ray.o[i].v < ray.bb.min[i].v
                                    \/ ray.o[i].v > ray.bb.max[i].v)
                  => ray.res.dst_inside_box = F(0)

----------------------------------------------------------------------------
(* Box construction and queries.  Corner coordinates are even counts of     *)
(* world units, so that the centre of every box is a whole count as it is   *)
(* an exact f32 in the program.                                              *)

MaxHalf == 1

CornerCoords == {-2 * MaxHalf, 0, 2 * MaxHalf}
ProbeCoords ==
    {-2 * MaxHalf - 1, -2 * MaxHalf, -MaxHalf, 0, MaxHalf, 2 * MaxHalf, 2 * MaxHalf + 1}
ProbeSideCoords == {0, MaxHalf, 2 * MaxHalf + 1}

CornersA == {Vec(x, y, z) : x \in CornerCoords, y \in CornerCoords, z \in CornerCoords}
CornersB == {Vec(0, 0, 0), Vec(2 * MaxHalf, 2 * MaxHalf, 2 * MaxHalf),
             Vec(-2 * MaxHalf, 2 * MaxHalf, 0)}
ProbePoints == {Vec(x, y, z) : x \in ProbeCoords, y \in ProbeSideCoords, z \in ProbeSideCoords}

InitBox ==
    /\ cam = CamIdle
    /\ trip = TripIdle
    /\ sc = ScIdle
    /\ march = MarchIdle
    /\ par = ParIdle
    /\ \E a \in CornersA, b \in CornersB, position \in ProbePoints :
          ray = [RayIdle EXCEPT !.stage = "new", !.a = a, !.b = b, !.o = position]

NextBox == BuildBox \/ BuildSwapped \/ AskContains \/ AskCenter \/ AskCorners

SpecBox == InitBox /\ [][NextBox]_vars

\* min < max on every axis
BoxProper == \A i \in 1..3 : ray.bb.min[i].v < ray.bb.max[i].v

(* C11: from_two_pos(a, b) equals from_two_pos(b, a), and the box it        *)
(* returns has min.k <= max.k on every axis k.                              *)
FromTwoPosSymmetricOrdered ==
    /\ ray.stage = "box" => \A i \in 1..3 : ray.bb.min[i].v <= ray.bb.max[i].v
    /\ "swapped" \in ray.asked => ray.swapped = ray.bb

\* two points neither of which is the minimum corner, built in both orders
FromTwoPosWitness ==
    /\ "swapped" \in ray.asked
    /\ ray.a = Vec(2 * MaxHalf, -2 * MaxHalf, 0)
    /\ ray.b = Vec(0, 0, 0)
    /\ ray.bb = [min |-> Vec(0, -2 * MaxHalf, 0), max |-> Vec(2 * MaxHalf, 0, 0)]

(* C12: for a box built by from_two_pos, contains(p) is true exactly when   *)
(* min.k <= p.k <= max.k on all three axes, bounds included, and            *)
(* contains(center()) is true.                                              *)
ContainsIffWithinBounds ==
    /\ "contains" \in ray.asked =>
          (ray.has <=> \A i \in 1..3 : /\ ray.bb.min[i].v <= ray.o[i].v
                                       /\ ray.o[i].v <= ray.bb.max[i].v)
    /\ "center" \in ray.asked =>
          /\ ray.center_has
          /\ \A i \in 1..3 : 2 * ray.center[i].v = ray.bb.min[i].v + ray.bb.max[i].v

\* a point on a face of a box with min < max is accepted, and so is the centre
ContainsWitness ==
    /\ {"contains", "center"} \subseteq ray.asked
    /\ BoxProper
    /\ ray.o[1] = ray.bb.max[1]
    /\ ray.has
    /\ ray.center_has

\* the two corners differ in exactly one coordinate
OneAxisApart(c1, c2) == Cardinality({i \in 1..3 : c1[i] # c2[i]}) = 1

(* C18: for a box with min < max on every axis, corners() holds the 8       *)
(* distinct min/max combinations, and the 12 pairs of edges() are the 12    *)
(* edges of the box: each joins two corners that differ in exactly one      *)
(* coordinate, and no edge is repeated.                                     *)
EdgesAreBoxEdges ==
    ("corners" \in ray.asked /\ BoxProper) =>
        /\ {ray.corners[i] : i \in 0..7}
              = {<<x, y, z>> : x \in {ray.bb.min[1], ray.bb.max[1]},
                               y \in {ray.bb.min[2], ray.bb.max[2]},
                               z \in {ray.bb.min[3], ray.bb.max[3]}}
        /\ Cardinality({ray.corners[i] : i \in 0..7}) = 8
        /\ Len(ray.edges) = 12
        /\ Cardinality({{ray.edges[n][1], ray.edges[n][2]} : n \in 1..Len(ray.edges)}) = 12
        /\ \A n \in 1..Len(ray.edges) :
              OneAxisApart(ray.corners[ray.edges[n][1]], ray.corners[ray.edges[n][2]])

----------------------------------------------------------------------------
(* The canvas pixel of an image element                                      *)

(* C17: the ray of element idx of the w x h buffer goes through canvas      *)
(* pixel (i + min.y, j + min.x) with i = idx / w and j = idx % w, for every *)
(* position of the projected rectangle, a negative min.x or min.y included, *)
(* and no element is computed when w or h is 0.                             *)
PixelRayThroughRect ==
    \A idx \in DOMAIN par.img :
        par.img[idx].written =>
            /\ par.w > 0
            /\ par.h > 0
            /\ par.img[idx].i = (idx \div par.w) + par.min_tuple[2]
            /\ par.img[idx].j = (idx % par.w) + par.min_tuple[1]

====
